---- MODULE Spec2Model ----
(***************************************************************************)
(* pheres: the AgentSpeak front end.  lexer.rs (the scanner), syntax.rs    *)
(* (the lexed stream: kinds and byte offsets) and parser.rs (the recursive *)
(* descent parser that drives rowan's GreenNodeBuilder).                   *)
(*                                                                         *)
(* A source text is a sequence of code points.  A code point is written as *)
(* a one-character string; EAcute stands for a code point that takes two   *)
(* bytes in UTF-8, NUL for char::default(), which the scanner's lookahead  *)
(* returns past the end of the input.                                      *)
(***************************************************************************)
EXTENDS Integers, Sequences, FiniteSets, TLC

VARIABLES
    text,            \* LexedStr::text, the source
    cursor,          \* lexer::Cursor: the number of code points consumed
    offset,          \* LexedStr::new's running byte offset
    kind,            \* LexedStr::kind
    start,           \* LexedStr::start
    lexErrors,       \* LexedStr::errors
    token_idx,       \* LexedStrIter::token_idx (0-based)
    parents,         \* GreenNodeBuilder::parents
    children,        \* GreenNodeBuilder::children
    errors,          \* Parser::errors
    unexpected_eof,  \* Parser::unexpected_eof
    stack,           \* the parser's call stack, innermost frame last
    status           \* where the pipeline is

vars == <<text, cursor, offset, kind, start, lexErrors, token_idx, parents,
          children, errors, unexpected_eof, stack, status>>

lexVars == <<text, cursor, offset, kind, start, lexErrors>>
parseVars == <<token_idx, parents, children, errors, unexpected_eof, stack>>

-----------------------------------------------------------------------------
(* Bounds of the model. *)

\* The longest text of LexSpec, in code points.
MaxTextLen == 3
\* The longest run of lexemes in a text of Spec.
MaxLexemes == 3
\* The longest operand/operator run in the expression texts of Spec.
MaxExprLen == 5
\* The depth of the call stack at which the process runs out of stack.
StackLimit == 48
\* The longest operand/operator run in the comparison texts of TermSpec.
MaxCompareLen == 5
\* The longest run of lexemes after the functor in the literal texts of
\* TermSpec.
MaxLiteralLen == 4
\* The longest run of lexemes after the annotations in the plan texts of
\* TermSpec.
MaxPlanLen == 3

-----------------------------------------------------------------------------
(* Code points. *)

NUL == "NUL"
EAcute == "U+00E9"

Lowercase ==
    {"a", "b", "c", "d", "e", "f", "g", "h", "i", "j", "k", "l", "m", "n",
     "o", "p", "q", "r", "s", "t", "u", "v", "w", "x", "y", "z"}

Uppercase ==
    {"A", "B", "C", "D", "E", "F", "G", "H", "I", "J", "K", "L", "M", "N",
     "O", "P", "Q", "R", "S", "T", "U", "V", "W", "X", "Y", "Z"}

Digit == {"0", "1", "2", "3", "4", "5", "6", "7", "8", "9"}

\* char::is_whitespace
Whitespace == {" ", "\n", "\t", "\r"}

IdentChars == Lowercase \cup Uppercase \cup Digit \cup {"_"}

Punctuation ==
    {"/", "#", "\"", "(", ")", "[", "]", "{", "}", "!", "?", ":", "<", ">",
     "=", "*", "-", "&", "|", "+", ".", ",", ";", "@", "\\", "~", "$"}

AllChars == IdentChars \cup Whitespace \cup Punctuation \cup {EAcute, NUL}

\* char::len_utf8
ByteLen(ch) == IF ch = EAcute THEN 2 ELSE 1

RECURSIVE ByteCount(_)
\* str::len of a sequence of code points
ByteCount(s) == IF s = <<>> THEN 0 ELSE ByteLen(Head(s)) + ByteCount(Tail(s))

RECURSIVE Bytes(_)
\* the bytes of a text: byte i of code point ch is <<ch, i>>
Bytes(s) ==
    IF s = <<>> THEN <<>>
    ELSE [i \in 1..ByteLen(Head(s)) |-> <<Head(s), i>>] \o Bytes(Tail(s))

-----------------------------------------------------------------------------
(* lexer.rs: Cursor.  A cursor over text t is the count p of code points   *)
(* already consumed.                                                       *)

is_eof(t, p) == p >= Len(t)

first(t, p) == IF p + 1 <= Len(t) THEN t[p + 1] ELSE NUL

second(t, p) == IF p + 2 <= Len(t) THEN t[p + 2] ELSE NUL

third(t, p) == IF p + 3 <= Len(t) THEN t[p + 3] ELSE NUL

\* Cursor::bump: the cursor after chars.next()
bump(t, p) == IF p < Len(t) THEN p + 1 ELSE p

RECURSIVE eat_while(_, _, _)
\* Cursor::eat_while, the predicate given as the set of code points it accepts
eat_while(S, t, p) ==
    IF first(t, p) \in S /\ ~is_eof(t, p) THEN eat_while(S, t, bump(t, p)) ELSE p

\* Cursor::followed_by: the cursor after the call (unchanged when s does not follow)
followed_by(t, p, s) ==
    IF p + Len(s) <= Len(t) /\ SubSeq(t, p + 1, p + Len(s)) = s
    THEN p + Len(s) ELSE p

\* whether Cursor::followed_by returns true
is_followed_by(t, p, s) ==
    p + Len(s) <= Len(t) /\ SubSeq(t, p + 1, p + Len(s)) = s

\* A len_consumed that counts code points where the code counts bytes.
len_consumed_in_chars(t, p0, p) == p - p0

\* Cursor::len_consumed for a token scanned from cursor p0 up to cursor p:
\* initial_len - chars.as_str().len(), in bytes
len_consumed(t, p0, p) == ByteCount(SubSeq(t, p0 + 1, p))

\* A TokenKind: the variant, and the terminated flag of String and
\* BlockComment (TRUE for the variants that carry no flag).
TK(tag) == [tag |-> tag, terminated |-> TRUE]

Scanned(k, p) == [kind |-> k, pos |-> p]

line_comment(t, p) ==
    Scanned(TK("LineComment"), eat_while(AllChars \ {"\n"}, t, p))

RECURSIVE block_comment_loop(_, _)
block_comment_loop(t, p) ==
    IF is_eof(t, p)
    THEN Scanned([tag |-> "BlockComment", terminated |-> FALSE], p)
    ELSE IF t[p + 1] = "*" /\ first(t, p + 1) = "/"
         THEN Scanned([tag |-> "BlockComment", terminated |-> TRUE], bump(t, p + 1))
         ELSE block_comment_loop(t, p + 1)

block_comment(t, p) == block_comment_loop(t, bump(t, p))

whitespace(t, p) == Scanned(TK("Whitespace"), eat_while(Whitespace, t, p))

\* A variable that goes on over uppercase letters only.
variable_uppercase_only(t, p) == Scanned(TK("Variable"), eat_while(Uppercase, t, p))

variable(t, p) == Scanned(TK("Variable"), eat_while(IdentChars, t, p))

RECURSIVE functor_taking_dot(_, _)
\* A functor that takes every `.` it meets, whatever follows.
functor_taking_dot(t, p) ==
    LET q == eat_while(IdentChars, t, p)
    IN  IF first(t, q) = "." /\ ~is_eof(t, q)
        THEN functor_taking_dot(t, bump(t, q))
        ELSE Scanned(TK("Functor"), q)

RECURSIVE functor(_, _)
functor(t, p) ==
    LET q == eat_while(IdentChars, t, p)
    IN  IF first(t, q) = "." /\ second(t, q) \in Lowercase
        THEN functor(t, bump(t, bump(t, q)))
        ELSE Scanned(TK("Functor"), q)

RECURSIVE string_loop(_, _, _)
string_loop(t, p, escaped) ==
    IF is_eof(t, p)
    THEN Scanned([tag |-> "String", terminated |-> FALSE], p)
    ELSE LET ch == t[p + 1]
         IN  IF ch = "\n"
             THEN Scanned([tag |-> "String", terminated |-> FALSE], p + 1)
             ELSE IF escaped THEN string_loop(t, p + 1, FALSE)
             ELSE IF ch = "\\" THEN string_loop(t, p + 1, TRUE)
             ELSE IF ch = "\""
             THEN Scanned([tag |-> "String", terminated |-> TRUE], p + 1)
             ELSE string_loop(t, p + 1, FALSE)

string(t, p) == string_loop(t, p, FALSE)

number(t, p) ==
    LET q1 == eat_while(Digit, t, p)
        frac == first(t, q1) = "." /\ second(t, q1) \in Digit
        q2 == IF frac THEN eat_while(Digit, t, bump(t, bump(t, q1))) ELSE q1
        k2 == IF frac THEN "Float" ELSE "Integer"
        e == first(t, q2) \in {"e", "E"}
    IN  IF e /\ second(t, q2) \in {"+", "-"} /\ third(t, q2) \in Digit
        THEN Scanned(TK("Float"), eat_while(Digit, t, q2 + 3))
        ELSE IF e /\ second(t, q2) \in Digit
        THEN Scanned(TK("Float"), eat_while(Digit, t, q2 + 2))
        ELSE Scanned(TK(k2), q2)

\* The guarded keyword arms of advance_token, in the order of the match.
Keywords ==
    << <<"\\", <<"=", "=">>, "NotEqual">>,
       <<"t", <<"r", "u", "e">>, "True">>,
       <<"f", <<"a", "l", "s", "e">>, "False">>,
       <<"i", <<"f">>, "If">>,
       <<"e", <<"l", "s", "e">>, "Else">>,
       <<"w", <<"h", "i", "l", "e">>, "While">>,
       <<"f", <<"o", "r">>, "For">>,
       <<"i", <<"n", "c", "l", "u", "d", "e">>, "Include">>,
       <<"b", <<"e", "g", "i", "n">>, "Begin">>,
       <<"e", <<"n", "d">>, "End">>,
       <<"n", <<"o", "t">>, "Not">>,
       <<"d", <<"i", "v">>, "Div">>,
       <<"m", <<"o", "d">>, "Mod">> >>

\* the keyword arms whose pattern and guard both match at ch, cursor p
KeywordHits(t, ch, p) ==
    {i \in 1..Len(Keywords) :
        Keywords[i][1] = ch /\ is_followed_by(t, p, Keywords[i][2])}

Min(S) == CHOOSE x \in S : \A y \in S : x <= y

\* A catch-all arm that takes the whole run of such code points into one
\* Unknown token.
unknown_run(t, p) == Scanned(TK("Unknown"), eat_while({EAcute, "\\"}, t, p))

\* The catch-all arm of advance_token: `_ => TokenKind::Unknown`
unknown(t, p) == Scanned(TK("Unknown"), p)

\* The arms of advance_token from '\\' down to the catch-all.
advance_word(t, ch, p) ==
    LET hits == KeywordHits(t, ch, p)
    IN  IF hits # {}
        THEN LET kw == Keywords[Min(hits)]
             IN  Scanned(TK(kw[3]), followed_by(t, p, kw[2]))
        ELSE IF ch \in Uppercase THEN variable(t, p)
        ELSE IF ch \in Lowercase THEN functor(t, p)
        ELSE IF ch \in Digit THEN number(t, p)
        ELSE IF ch = "_"
        THEN LET q == eat_while({"_"}, t, p)
             IN  IF first(t, q) \in Uppercase
                 THEN variable(t, bump(t, q))
                 ELSE Scanned(TK("Wildcard"), q)
        ELSE unknown(t, p)

\* Cursor::advance_token from cursor p0 (not at the end): the kind and the
\* cursor after the token.
advance_token_kind(t, p0) ==
    LET ch == t[p0 + 1]
        p == p0 + 1
        f == first(t, p)
        s == second(t, p)
    IN  IF ch \in Whitespace THEN whitespace(t, p)
        ELSE CASE ch = "/" ->
                    IF f = "/" THEN line_comment(t, p)
                    ELSE IF f = "*" THEN block_comment(t, p)
                    ELSE Scanned(TK("Slash"), p)
               [] ch = "#" -> line_comment(t, p)
               [] ch = "\"" -> string(t, p)
               [] ch = "(" -> Scanned(TK("OpenParen"), p)
               [] ch = ")" -> Scanned(TK("CloseParen"), p)
               [] ch = "[" -> Scanned(TK("OpenBracket"), p)
               [] ch = "]" -> Scanned(TK("CloseBracket"), p)
               [] ch = "{" -> Scanned(TK("OpenBrace"), p)
               [] ch = "}" -> Scanned(TK("CloseBrace"), p)
               [] ch = "!" ->
                    IF f = "!" THEN Scanned(TK("BangBang"), bump(t, p))
                    ELSE Scanned(TK("Bang"), p)
               [] ch = "?" -> Scanned(TK("Question"), p)
               [] ch = ":" ->
                    IF f = "-" THEN Scanned(TK("Define"), bump(t, p))
                    ELSE Scanned(TK("Colon"), p)
               [] ch = "<" ->
                    IF f = "-" THEN Scanned(TK("Arrow"), bump(t, p))
                    ELSE IF f = "=" THEN Scanned(TK("LtEq"), bump(t, p))
                    ELSE Scanned(TK("Lt"), p)
               [] ch = ">" ->
                    IF f = "=" THEN Scanned(TK("GtEq"), bump(t, p))
                    ELSE Scanned(TK("Gt"), p)
               [] ch = "=" ->
                    IF f = "=" THEN Scanned(TK("Equal"), bump(t, p))
                    ELSE IF f = "." /\ s = "."
                    THEN Scanned(TK("Decompose"), bump(t, bump(t, p)))
                    ELSE Scanned(TK("Eq"), p)
               [] ch = "*" ->
                    IF f = "*" THEN Scanned(TK("Pow"), bump(t, p))
                    ELSE Scanned(TK("Star"), p)
               [] ch = "-" ->
                    IF f = "+" THEN Scanned(TK("MinusPlus"), bump(t, p))
                    ELSE Scanned(TK("Minus"), p)
               [] ch = "&" -> Scanned(TK("And"), p)
               [] ch = "|" ->
                    IF f = "&" /\ s = "|"
                    THEN Scanned(TK("ForkJoinAnd"), bump(t, bump(t, p)))
                    ELSE IF f = "|" /\ s = "|"
                    THEN Scanned(TK("ForkJoinXor"), bump(t, bump(t, p)))
                    ELSE Scanned(TK("Or"), p)
               [] ch = "+" -> Scanned(TK("Plus"), p)
               [] ch = "." ->
                    IF f \in Lowercase THEN functor(t, bump(t, p))
                    ELSE Scanned(TK("Dot"), p)
               [] ch = "," -> Scanned(TK("Comma"), p)
               [] ch = ";" -> Scanned(TK("Semi"), p)
               [] ch = "@" -> Scanned(TK("At"), p)
               [] OTHER -> advance_word(t, ch, p)

\* Cursor::advance_token: the Token {kind, len} and the cursor after it
advance_token(t, p0) ==
    LET sc == advance_token_kind(t, p0)
    IN  [kind |-> sc.kind, len |-> len_consumed(t, p0, sc.pos), pos |-> sc.pos]

-----------------------------------------------------------------------------
(* syntax.rs: SyntaxKind and LexedStr. *)

NoiseKinds == {"Whitespace", "LineComment", "BlockComment"}

\* the TokenKind variants that LexedStr::new maps to the SyntaxKind of the
\* same name
SameNameKinds ==
    {"Whitespace", "LineComment", "BlockComment", "Functor", "Variable",
     "Wildcard", "Integer", "Float", "String", "True", "False", "If", "Else",
     "While", "For", "Include", "Begin", "End", "OpenParen", "CloseParen",
     "OpenBracket", "CloseBracket", "OpenBrace", "CloseBrace", "Arrow",
     "Define", "Colon", "ForkJoinAnd", "ForkJoinXor", "BangBang", "Bang",
     "Question", "MinusPlus", "Not", "Plus", "Minus", "Slash", "Div", "Mod",
     "Pow", "Star", "And", "Or", "LtEq", "GtEq", "NotEqual", "Equal",
     "Decompose", "Eq", "Lt", "Gt", "Semi", "Comma", "Dot", "At"}

\* the match of LexedStr::new: TokenKind to SyntaxKind
syntax_kind(k) ==
    CASE k.tag = "Unknown" -> "Error"
      [] k.tag \in SameNameKinds -> k.tag

\* A classification that reports the Unknown tokens only.
syntax_error_kind_of_unknown(k) ==
    IF k.tag = "Unknown" THEN <<"UnexpectedToken">> ELSE <<>>

\* the lexical error LexedStr::new pushes for a token of kind k, as a
\* sequence of zero or one SyntaxErrorKind
syntax_error_kind(k) ==
    CASE k.tag = "BlockComment" /\ ~k.terminated -> <<"UnterminatedBlockComment">>
      [] k.tag = "String" /\ ~k.terminated -> <<"UnterminatedString">>
      [] k.tag = "Unknown" -> <<"UnexpectedToken">>
      [] OTHER -> <<>>

comparison_operator ==
    {"LtEq", "GtEq", "NotEqual", "Equal", "Decompose", "Eq", "Lt", "Gt"}

additive_operator == {"Plus", "Minus"}

multiplicative_operator == {"Star", "Slash", "Div", "Mod"}

unary_operator == {"Plus", "Minus"}

formula_type == {"BangBang", "Bang", "Question", "MinusPlus", "Plus", "Minus"}

\* LexedStr::len
len == Len(kind) - 1

\* LexedStr::token_range for the 0-based token index idx: the byte range
\* start[idx] .. start[idx + 1], as <<first, one past last>>
token_range(idx) == <<start[idx + 1], start[idx + 2]>>

\* &text[range]: the bytes of the source in a byte range
slice(range) == SubSeq(Bytes(text), range[1] + 1, range[2])

None == "None"

\* LexedStrIter::peek at the 0-based index idx: whether it is Some, ...
peek_is_some(idx) == idx < len

\* ... the kind (None when it is not) ...
peek_kind(idx) == IF idx < len THEN kind[idx + 1] ELSE None

\* ... and the text
peek_text(idx) == slice(token_range(idx))

\* Body of the for loop of LexedStr::new for one token of tokenize()
Tokenize ==
    /\ status = "lexing"
    /\ ~is_eof(text, cursor)
    /\ LET token == advance_token(text, cursor)
       IN  /\ lexErrors' = lexErrors \o
                   [i \in 1..Len(syntax_error_kind(token.kind)) |->
                       [kind |-> syntax_error_kind(token.kind)[i],
                        token_idx |-> Len(kind)]]
           /\ kind' = Append(kind, syntax_kind(token.kind))
           /\ start' = Append(start, offset)
           /\ offset' = offset + token.len
           /\ cursor' = token.pos
    /\ UNCHANGED <<text, status, parseVars>>

\* An end of LexedStr::new that pushes the final offset once.
LexedStrNew_single_offset ==
    /\ status = "lexing"
    /\ is_eof(text, cursor)
    /\ kind' = Append(kind, "Eof")
    /\ start' = Append(start, offset)
    /\ status' = "lexed"
    /\ UNCHANGED <<text, cursor, offset, lexErrors, parseVars>>

\* The end of LexedStr::new: tokenize() is exhausted, the Eof sentinel
LexedStrNew ==
    /\ status = "lexing"
    /\ is_eof(text, cursor)
    /\ kind' = Append(kind, "Eof")
    /\ start' = start \o <<offset, offset>>
    /\ status' = "lexed"
    /\ UNCHANGED <<text, cursor, offset, lexErrors, parseVars>>

-----------------------------------------------------------------------------
(* rowan's GreenNodeBuilder, as parser.rs drives it, and the cursor of the *)
(* parser.  A parser state p is the record of the parser's fields; panic   *)
(* is set when an unwrap, assert or todo of the operation fails.           *)

\* the parser's fields as they are in the current state
Self ==
    [idx |-> token_idx, parents |-> parents, children |-> children,
     errors |-> errors, eof |-> unexpected_eof, panic |-> FALSE]

Leaf(k, txt) == [leaf |-> TRUE, kind |-> k, text |-> txt, children |-> <<>>]

Node(k, ch) == [leaf |-> FALSE, kind |-> k, text |-> <<>>, children |-> ch]

\* GreenNodeBuilder::token
token(p, k, txt) == [p EXCEPT !.children = Append(@, Leaf(k, txt))]

\* GreenNodeBuilder::start_node
start_node(p, k) ==
    [p EXCEPT !.parents = Append(@, [kind |-> k, first_child |-> Len(p.children)])]

\* GreenNodeBuilder::checkpoint
checkpoint(p) == Len(p.children)

\* GreenNodeBuilder::start_node_at, with its two assertions
start_node_at(p, cp, k) ==
    IF \/ cp > Len(p.children)
       \/ Len(p.parents) > 0 /\ cp < p.parents[Len(p.parents)].first_child
    THEN [p EXCEPT !.panic = TRUE]
    ELSE [p EXCEPT !.parents = Append(@, [kind |-> k, first_child |-> cp])]

\* GreenNodeBuilder::finish_node
finish_node(p) ==
    IF Len(p.parents) = 0
    THEN [p EXCEPT !.panic = TRUE]
    ELSE LET top == p.parents[Len(p.parents)]
             n == Len(p.children)
         IN  [p EXCEPT
                !.parents = SubSeq(@, 1, Len(@) - 1),
                !.children =
                    Append(SubSeq(@, 1, top.first_child),
                           Node(top.kind, SubSeq(@, top.first_child + 1, n)))]

\* Parser::bump: tokens.next().unwrap(), then builder.token
p_bump(p) ==
    IF ~peek_is_some(p.idx)
    THEN [p EXCEPT !.panic = TRUE]
    ELSE [token(p, peek_kind(p.idx), peek_text(p.idx)) EXCEPT !.idx = @ + 1]

RECURSIVE skip_noise_dropping(_)
\* A skip_noise that steps over the noise tokens without handing them to the
\* builder.
skip_noise_dropping(p) ==
    IF peek_kind(p.idx) \in NoiseKinds
    THEN skip_noise_dropping([p EXCEPT !.idx = @ + 1])
    ELSE p

RECURSIVE skip_noise(_)
\* Parser::skip_noise
skip_noise(p) ==
    IF peek_kind(p.idx) \in NoiseKinds
    THEN skip_noise(p_bump(p))
    ELSE p

\* Parser::current: the parser after skip_noise ...
current(p) == skip_noise(p)

\* ... and the kind it returns, at a parser state q that current() left
tok(q) == peek_kind(q.idx)

\* A push_error that records the index behind the current token.
push_error_at_next(p, message) ==
    [p EXCEPT !.errors = Append(@, [message |-> message, token_idx |-> p.idx + 1])]

\* Parser::push_error
push_error(p, message) ==
    [p EXCEPT !.errors = Append(@, [message |-> message, token_idx |-> p.idx])]

RECURSIVE recover_loop_to_end(_, _, _)
\* A recover loop that does not stop after the token of its inclusive
\* predicate.
recover_loop_to_end(p, until_inclusive, until_exclusive) ==
    LET q == current(p)
    IN  IF tok(q) = None \/ tok(q) \in until_exclusive THEN q
        ELSE recover_loop_to_end(p_bump(q), until_inclusive, until_exclusive)

RECURSIVE recover_loop(_, _, _)
\* the while loop of Parser::recover
recover_loop(p, until_inclusive, until_exclusive) ==
    LET q == current(p)
    IN  IF tok(q) = None \/ tok(q) \in until_exclusive THEN q
        ELSE IF tok(q) \in until_inclusive THEN p_bump(q)
        ELSE recover_loop(p_bump(q), until_inclusive, until_exclusive)

RECURSIVE recover_loop_stopping_early(_, _, _)
\* A recover loop that tests both stop predicates before it consumes.
recover_loop_stopping_early(p, until_inclusive, until_exclusive) ==
    LET q == current(p)
    IN  IF tok(q) = None \/ tok(q) \in until_exclusive \/ tok(q) \in until_inclusive
        THEN q
        ELSE recover_loop_stopping_early(p_bump(q), until_inclusive, until_exclusive)

\* A recover that stops in front of the token of its inclusive predicate.
recover_stopping_early(p, message, until_inclusive, until_exclusive) ==
    finish_node(
        recover_loop_stopping_early(start_node(push_error(p, message), "Error"),
                                    until_inclusive, until_exclusive))

\* the body of Parser::recover, the stop predicates given as the sets of
\* kinds they accept
recover_from(p, message, until_inclusive, until_exclusive) ==
    finish_node(
        recover_loop(start_node(push_error(p, message), "Error"),
                     until_inclusive, until_exclusive))

-----------------------------------------------------------------------------
(* The call stack of the parser.  A frame is a call of one function of     *)
(* parser.rs: where it resumes (pc), its checkpoint, and, for recover, its *)
(* arguments.  A call in tail position replaces the caller's frame.        *)

Frame(fn) ==
    [fn |-> fn, pc |-> "start", cp |-> 0, message |-> <<>>,
     until_inclusive |-> {}, until_exclusive |-> {}]

RecoverFrame(message, until_inclusive, until_exclusive) ==
    [fn |-> "recover", pc |-> "start", cp |-> 0, message |-> message,
     until_inclusive |-> until_inclusive, until_exclusive |-> until_exclusive]

Top == stack[Len(stack)]

Running(fn) == status = "parsing" /\ stack # <<>> /\ Top.fn = fn

\* the stack after the running function returns
Ret == SubSeq(stack, 1, Len(stack) - 1)

\* the stack after the running function calls fn, to resume at pc
Call(pc, fn) == Append([stack EXCEPT ![Len(stack)].pc = pc], Frame(fn))

\* the same, the running function holding checkpoint cp
CallCp(pc, cp, fn) ==
    Append([stack EXCEPT ![Len(stack)].pc = pc, ![Len(stack)].cp = cp], Frame(fn))

\* the running function calls fn as the last thing it does
TailCall(fn) == Append(Ret, Frame(fn))

CallRecover(pc, message, until_inclusive, until_exclusive) ==
    Append([stack EXCEPT ![Len(stack)].pc = pc],
           RecoverFrame(message, until_inclusive, until_exclusive))

TailCallRecover(message, until_inclusive, until_exclusive) ==
    Append(Ret, RecoverFrame(message, until_inclusive, until_exclusive))

\* the outcome of a step: the parser's fields and the call stack
R(p, stk) == [p |-> p, stack |-> stk]

\* what the process is doing after a step with outcome r
status_after(r) ==
    IF r.p.panic THEN "panicked"
    ELSE IF Len(r.stack) > StackLimit THEN "stack_overflow"
    ELSE IF r.stack = <<>> THEN "done"
    ELSE "parsing"

Do(r) ==
    /\ token_idx' = r.p.idx
    /\ parents' = r.p.parents
    /\ children' = r.p.children
    /\ errors' = r.p.errors
    /\ unexpected_eof' = r.p.eof
    /\ stack' = r.stack
    /\ status' = status_after(r)
    /\ UNCHANGED lexVars

\* GreenNodeBuilder::finish: exactly one element is left
finish(p) == IF Len(p.children) = 1 THEN p ELSE [p EXCEPT !.panic = TRUE]

-----------------------------------------------------------------------------
(* parser.rs: one action per function, from where it stands to its next    *)
(* call or its return.                                                     *)

\* A parse that hands a `!` to parse_rule_or_belief.
parse_bang_as_belief ==
    /\ status = "lexed" \/ Running("parse")
    /\ IF status = "lexed"
       THEN Do(R(start_node(Self, "Root"), <<[Frame("parse") EXCEPT !.pc = "loop"]>>))
       ELSE LET q == current(Self)
            IN  Do(CASE tok(q) = None -> R(finish(finish_node(q)), Ret)
                     [] tok(q) \in {"Functor", "Bang"} ->
                          R(q, Call("loop", "parse_rule_or_belief"))
                     [] tok(q) \in {"At", "Plus", "Minus"} -> R(q, Call("loop", "parse_plan"))
                     [] OTHER ->
                          R(q, CallRecover("loop", <<"unexpected token ", tok(q)>>,
                                           {"Dot"}, {})))

\* A parse that reports the end of the input where its loop ends.
parse_reporting_eof ==
    /\ status = "lexed" \/ Running("parse")
    /\ IF status = "lexed"
       THEN Do(R(start_node(Self, "Root"), <<[Frame("parse") EXCEPT !.pc = "loop"]>>))
       ELSE LET q == current(Self)
            IN  Do(CASE tok(q) = None ->
                          R(finish(finish_node([q EXCEPT !.eof = TRUE])), Ret)
                     [] tok(q) = "Functor" -> R(q, Call("loop", "parse_rule_or_belief"))
                     [] tok(q) = "Bang" -> R(q, Call("loop", "parse_initial_goal"))
                     [] tok(q) \in {"At", "Plus", "Minus"} -> R(q, Call("loop", "parse_plan"))
                     [] OTHER ->
                          R(q, CallRecover("loop", <<"unexpected token ", tok(q)>>,
                                           {"Dot"}, {})))

\* parse() and Parser::parse
parse ==
    /\ status = "lexed" \/ Running("parse")
    /\ IF status = "lexed"
       THEN Do(R(start_node(Self, "Root"), <<[Frame("parse") EXCEPT !.pc = "loop"]>>))
       ELSE LET q == current(Self)
            IN  Do(CASE tok(q) = None -> R(finish(finish_node(q)), Ret)
                     [] tok(q) = "Functor" -> R(q, Call("loop", "parse_rule_or_belief"))
                     [] tok(q) = "Bang" -> R(q, Call("loop", "parse_initial_goal"))
                     [] tok(q) \in {"At", "Plus", "Minus"} -> R(q, Call("loop", "parse_plan"))
                     [] OTHER ->
                          R(q, CallRecover("loop", <<"unexpected token ", tok(q)>>,
                                           {"Dot"}, {})))

\* A rule_or_belief_dot that bumps before it looks for the `.`.
rule_or_belief_dot_bumping(p) ==
    LET q == p_bump(current(p))
    IN  IF q.children[Len(q.children)].kind = "Dot" THEN R(finish_node(q), Ret)
        ELSE R(q, CallRecover("finish", <<"expected '.' after rule or belief">>,
                              {"Dot"}, {}))

\* parse_rule_or_belief from `if self.current() == Some(SyntaxKind::Dot)`
rule_or_belief_dot(p) ==
    LET q == current(p)
    IN  IF tok(q) = "Dot" THEN R(finish_node(p_bump(q)), Ret)
        ELSE R(q, CallRecover("finish", <<"expected '.' after rule or belief">>,
                              {"Dot"}, {}))

parse_rule_or_belief ==
    /\ Running("parse_rule_or_belief")
    /\ Do(CASE Top.pc = "start" ->
                 R(Self, CallCp("literal", checkpoint(Self), "parse_literal"))
             [] Top.pc = "literal" ->
                 LET q == current(Self)
                 IN  IF tok(q) = "Define"
                     THEN R(p_bump(start_node_at(q, Top.cp, "Rule")),
                            Call("term", "parse_term"))
                     ELSE rule_or_belief_dot(start_node_at(q, Top.cp, "Belief"))
             [] Top.pc = "term" -> rule_or_belief_dot(Self)
             [] Top.pc = "finish" -> R(finish_node(Self), Ret))

parse_initial_goal ==
    /\ Running("parse_initial_goal")
    /\ Do(CASE Top.pc = "start" ->
                 LET q0 == current(start_node(Self, "InitialGoal"))
                     q1 == IF tok(q0) = "Bang" THEN q0 ELSE [q0 EXCEPT !.panic = TRUE]
                     q == current(p_bump(q1))
                 IN  IF tok(q) = "Functor" THEN R(q, Call("literal", "parse_literal"))
                     ELSE IF tok(q) # None
                     THEN R(q, CallRecover("finish",
                                           <<"expected functor after '!', got ", tok(q)>>,
                                           {"Dot"}, {}))
                     ELSE R(finish_node([q EXCEPT !.eof = TRUE]), Ret)
             [] Top.pc = "literal" ->
                 LET q == current(Self)
                 IN  IF tok(q) = "Dot" THEN R(finish_node(p_bump(q)), Ret)
                     ELSE IF tok(q) # None
                     THEN R(q, CallRecover("finish",
                                           <<"expected '.' after initial goal, got ", tok(q)>>,
                                           {"Dot"}, {}))
                     ELSE R(finish_node([q EXCEPT !.eof = TRUE]), Ret)
             [] Top.pc = "finish" -> R(finish_node(Self), Ret))

\* A plan_body that takes the `.` of a plan that has no body.
plan_body_taking_dot(p) ==
    LET q == current(p)
    IN  IF tok(q) = "Arrow"
        THEN R(start_node(p_bump(q), "Body"), Call("body", "parse_formula"))
        ELSE IF tok(q) = "Dot" THEN R(finish_node(p_bump(q)), Ret)
        ELSE R(finish_node(q), Ret)

\* parse_plan from `if self.current() == Some(SyntaxKind::Arrow)`
plan_body(p) ==
    LET q == current(p)
    IN  IF tok(q) = "Arrow"
        THEN R(start_node(p_bump(q), "Body"), Call("body", "parse_formula"))
        ELSE R(finish_node(q), Ret)

\* A plan_annotations that steps over the token it meets in the place of the
\* trigger.
plan_annotations_skipping(p) ==
    LET q == current(p)
    IN  IF tok(q) = "At"
        THEN R(p_bump(start_node(q, "PlanAnnotation")),
               Call("annotation", "parse_literal"))
        ELSE LET q1 == IF tok(q) \in {"Plus", "Minus"} THEN p_bump(q)
                       ELSE p_bump(push_error(q, <<"expected '+' or '-' for plan trigger">>))
                 q2 == current(q1)
                 q3 == IF tok(q2) = "Bang" THEN p_bump(q2) ELSE q2
             IN  R(q3, Call("literal", "parse_literal"))

\* parse_plan from `while self.current() == Some(SyntaxKind::At)`
plan_annotations(p) ==
    LET q == current(p)
    IN  IF tok(q) = "At"
        THEN R(p_bump(start_node(q, "PlanAnnotation")),
               Call("annotation", "parse_literal"))
        ELSE LET q1 == IF tok(q) \in {"Plus", "Minus"} THEN p_bump(q)
                       ELSE push_error(q, <<"expected '+' or '-' for plan trigger">>)
                 q2 == current(q1)
                 q3 == IF tok(q2) = "Bang" THEN p_bump(q2) ELSE q2
             IN  R(q3, Call("literal", "parse_literal"))

parse_plan ==
    /\ Running("parse_plan")
    /\ Do(CASE Top.pc = "start" -> plan_annotations(start_node(Self, "Plan"))
             [] Top.pc = "annotation" -> plan_annotations(finish_node(Self))
             [] Top.pc = "literal" ->
                 LET q == current(Self)
                 IN  IF tok(q) = "Colon"
                     THEN R(start_node(p_bump(q), "PlanContext"),
                            Call("context", "parse_term"))
                     ELSE plan_body(q)
             [] Top.pc = "context" -> plan_body(finish_node(Self))
             [] Top.pc = "body" ->
                 LET q == current(Self)
                 IN  IF tok(q) = "Semi"
                     THEN R(p_bump(q), Call("body", "parse_formula"))
                     ELSE IF tok(q) = "Dot"
                     THEN R(finish_node(finish_node(p_bump(q))), Ret)
                     ELSE IF tok(q) # None
                     THEN R(q, CallRecover("formula",
                                           <<"expected ';' or '.', got ", tok(q)>>,
                                           {}, {"Semi", "Dot"}))
                     ELSE R(finish_node(finish_node([q EXCEPT !.eof = TRUE])), Ret)
             [] Top.pc = "formula" -> R(Self, Call("body", "parse_formula")))

parse_formula ==
    /\ Running("parse_formula")
    /\ Do(CASE Top.pc = "start" ->
                 LET q == current(start_node(Self, "Formula"))
                     q1 == IF tok(q) \in formula_type THEN p_bump(q)
                           ELSE IF tok(q) \in {"While", "If", "For"}
                           THEN [q EXCEPT !.panic = TRUE]
                           ELSE IF tok(q) # None THEN q
                           ELSE [q EXCEPT !.eof = TRUE]
                 IN  R(q1, Call("finish", "parse_term"))
             [] Top.pc = "finish" -> R(finish_node(Self), Ret))

\* A literal_annotations that closes one node after an empty `[`.
literal_annotations_unbalanced(p) ==
    LET q == current(p)
    IN  IF tok(q) = "OpenBracket"
        THEN LET q1 == current(p_bump(start_node(q, "LiteralAnnotations")))
             IN  IF tok(q1) # "CloseBracket"
                 THEN R(q1, Call("annotations", "parse_term"))
                 ELSE R(finish_node(q1), Ret)
        ELSE R(finish_node(q), Ret)

\* parse_literal from `if self.current() == Some(SyntaxKind::OpenBracket)`
literal_annotations(p) ==
    LET q == current(p)
    IN  IF tok(q) = "OpenBracket"
        THEN LET q1 == current(p_bump(start_node(q, "LiteralAnnotations")))
             IN  IF tok(q1) # "CloseBracket"
                 THEN R(q1, Call("annotations", "parse_term"))
                 ELSE R(finish_node(finish_node(q1)), Ret)
        ELSE R(finish_node(q), Ret)

\* parse_literal from `if self.current() == Some(SyntaxKind::OpenParen)`
literal_terms(p) ==
    LET q == current(p)
    IN  IF tok(q) = "OpenParen"
        THEN R(p_bump(start_node(q, "LiteralTerms")), Call("terms", "parse_term"))
        ELSE literal_annotations(q)

parse_literal ==
    /\ Running("parse_literal")
    /\ Do(CASE Top.pc = "start" ->
                 LET q == current(start_node(Self, "Literal"))
                 IN  IF tok(q) = "Functor" THEN literal_terms(p_bump(q))
                     ELSE IF tok(q) # None
                     THEN R(q, CallRecover("finish", <<"expected literal, got ", tok(q)>>,
                                           {}, {"Dot", "Semi"}))
                     ELSE literal_terms([q EXCEPT !.eof = TRUE])
             [] Top.pc = "terms" ->
                 LET q == current(Self)
                 IN  IF tok(q) = "Comma" THEN R(p_bump(q), Call("terms", "parse_term"))
                     ELSE IF tok(q) = "CloseParen"
                     THEN literal_annotations(finish_node(p_bump(q)))
                     ELSE IF tok(q) # None
                     THEN R(q, CallRecover("terms_end",
                                           <<"expected ')' to close literal, got ", tok(q)>>,
                                           {"CloseParen"}, {"Dot", "Semi"}))
                     ELSE literal_annotations(finish_node([q EXCEPT !.eof = TRUE]))
             [] Top.pc = "terms_end" -> literal_annotations(finish_node(Self))
             [] Top.pc = "annotations" ->
                 LET q == current(Self)
                 IN  IF tok(q) = "Comma"
                     THEN R(p_bump(q), Call("annotations", "parse_term"))
                     ELSE IF tok(q) = "CloseBracket"
                     THEN R(finish_node(finish_node(p_bump(q))), Ret)
                     ELSE IF tok(q) # None
                     THEN R(q, CallRecover("annotations_end",
                                           <<"expected ']' to close literal annotation, got ",
                                             tok(q)>>,
                                           {"CloseBracket"}, {"Dot", "Semi"}))
                     ELSE R(finish_node(finish_node([q EXCEPT !.eof = TRUE])), Ret)
             [] Top.pc = "annotations_end" -> R(finish_node(finish_node(Self)), Ret)
             [] Top.pc = "finish" -> R(finish_node(Self), Ret))

\* A level of the precedence ladder built with a checkpoint: the operand
\* (operand_fn), then while (repeat) or if (not repeat) a token of ops
\* follows, start_node_at(checkpoint, node_kind), bump, the right operand
\* (rhs_fn), finish_node.
binary_operator(p, ops, node_kind, rhs_fn) ==
    LET q == current(p)
    IN  IF tok(q) \in ops
        THEN R(p_bump(start_node_at(q, Top.cp, node_kind)), Call("finish", rhs_fn))
        ELSE R(q, Ret)

binary_level(ops, node_kind, operand_fn, rhs_fn, repeat) ==
    CASE Top.pc = "start" -> R(Self, CallCp("operator", checkpoint(Self), operand_fn))
      [] Top.pc = "operator" -> binary_operator(Self, ops, node_kind, rhs_fn)
      [] Top.pc = "finish" ->
           IF repeat THEN binary_operator(finish_node(Self), ops, node_kind, rhs_fn)
           ELSE R(finish_node(Self), Ret)

parse_term ==
    /\ Running("parse_term")
    /\ Do(binary_level({"Or"}, "Disjunction", "parse_conjunction",
                       "parse_conjunction", TRUE))

parse_conjunction ==
    /\ Running("parse_conjunction")
    /\ Do(binary_level({"And"}, "Conjunction", "parse_negation", "parse_negation", TRUE))

parse_negation ==
    /\ Running("parse_negation")
    /\ Do(CASE Top.pc = "start" ->
                 LET q == current(Self)
                 IN  IF tok(q) = "Not"
                     THEN R(start_node(q, "Negation"), Call("finish", "parse_negation"))
                     ELSE R(q, TailCall("parse_comparison"))
             [] Top.pc = "finish" -> R(finish_node(Self), Ret))

\* A parse_comparison that takes comparison operators as long as they follow.
parse_comparison_chaining ==
    /\ Running("parse_comparison")
    /\ Do(binary_level(comparison_operator, "Comparison", "parse_additive_expression",
                       "parse_additive_expression", TRUE))

parse_comparison ==
    /\ Running("parse_comparison")
    /\ Do(binary_level(comparison_operator, "Comparison", "parse_additive_expression",
                       "parse_additive_expression", FALSE))

\* A parse_additive_expression whose right operand is again an additive
\* expression.
parse_additive_expression_right_recursive ==
    /\ Running("parse_additive_expression")
    /\ Do(binary_level(additive_operator, "AdditiveExpression",
                       "parse_multiplicative_expression",
                       "parse_additive_expression", TRUE))

parse_additive_expression ==
    /\ Running("parse_additive_expression")
    /\ Do(binary_level(additive_operator, "AdditiveExpression",
                       "parse_multiplicative_expression",
                       "parse_multiplicative_expression", TRUE))

\* A parse_multiplicative_expression whose right operand is parsed one level
\* too loose.
parse_multiplicative_expression_loose_operand ==
    /\ Running("parse_multiplicative_expression")
    /\ Do(binary_level(multiplicative_operator, "MultiplicativeExpression",
                       "parse_unary_expression", "parse_additive_expression", TRUE))

parse_multiplicative_expression ==
    /\ Running("parse_multiplicative_expression")
    /\ Do(binary_level(multiplicative_operator, "MultiplicativeExpression",
                       "parse_unary_expression", "parse_unary_expression", TRUE))

parse_unary_expression ==
    /\ Running("parse_unary_expression")
    /\ Do(CASE Top.pc = "start" ->
                 LET q == current(Self)
                 IN  IF tok(q) \in unary_operator
                     THEN R(p_bump(start_node(q, "UnaryExpression")),
                            Call("finish", "parse_unary_expression"))
                     ELSE R(q, TailCall("parse_exponentiation"))
             [] Top.pc = "finish" -> R(finish_node(Self), Ret))

\* A parse_exponentiation whose right operand is an atom.
parse_exponentiation_atom_operand ==
    /\ Running("parse_exponentiation")
    /\ Do(binary_level({"Pow"}, "Exponentiation", "parse_atom", "parse_atom", TRUE))

parse_exponentiation ==
    /\ Running("parse_exponentiation")
    /\ Do(binary_level({"Pow"}, "Exponentiation", "parse_atom",
                       "parse_unary_expression", TRUE))

AtomKinds == {"Variable", "Wildcard", "Integer", "Float", "True", "False", "String"}

parse_atom ==
    /\ Running("parse_atom")
    /\ Do(CASE Top.pc = "start" ->
                 LET q == current(Self)
                 IN  CASE tok(q) \in AtomKinds -> R(p_bump(q), Ret)
                       [] tok(q) = "Functor" -> R(q, TailCall("parse_literal"))
                       [] tok(q) = "OpenBracket" -> R([q EXCEPT !.panic = TRUE], Ret)
                       [] tok(q) = "OpenParen" -> R(p_bump(q), Call("close", "parse_term"))
                       [] tok(q) = None -> R([q EXCEPT !.eof = TRUE], Ret)
                       [] OTHER ->
                            R(q, TailCallRecover(<<"expected atom, got ", tok(q)>>, {},
                                                 {"Semi", "Dot", "CloseParen"}))
             [] Top.pc = "close" ->
                 LET q == current(Self)
                 IN  IF tok(q) = "CloseParen" THEN R(p_bump(q), Ret)
                     ELSE IF tok(q) # None
                     THEN R(q, TailCallRecover(<<"expected ')', got ", tok(q)>>,
                                               {"CloseParen"}, {"Semi", "Dot"}))
                     ELSE R([q EXCEPT !.eof = TRUE], Ret))

\* Parser::recover
recover ==
    /\ Running("recover")
    /\ Do(R(recover_from(Self, Top.message, Top.until_inclusive, Top.until_exclusive),
            Ret))

-----------------------------------------------------------------------------
(* The source texts of the model. *)

\* the sequences over S of length at most n
SeqsUpTo(S, n) == UNION {[1..k -> S] : k \in 0..n}

RECURSIVE Concat(_)
\* the concatenation of a sequence of texts
Concat(ss) == IF ss = <<>> THEN <<>> ELSE Head(ss) \o Concat(Tail(ss))

\* LexSpec: every text over LexAlphabet up to MaxTextLen, and the longer
\* texts over the code points of strings and of words
LexAlphabet ==
    {" ", "\n", "i", "f", "X", "_", "1", ".", "\"", "\\", "/", "*", "=", EAcute}

StringAlphabet == {"\"", "\\", "\n", "i"}

WordAlphabet == {"i", "f", ".", "X", "_"}

\* the texts `foo.bar(1).`, `foo.`, `trueish`, `format`, `iffy`, `notify`,
\* `_Foo`, `_foo`, `foo(1).bar`
ExampleTexts ==
    {<<"f", "o", "o", ".", "b", "a", "r", "(", "1", ")", ".">>,
     <<"f", "o", "o", ".">>,
     <<"t", "r", "u", "e", "i", "s", "h">>,
     <<"f", "o", "r", "m", "a", "t">>,
     <<"i", "f", "f", "y">>,
     <<"n", "o", "t", "i", "f", "y">>,
     <<"_", "F", "o", "o">>,
     <<"_", "f", "o", "o">>,
     <<"f", "o", "o", "(", "1", ")", ".", "b", "a", "r">>}

LexTexts ==
    SeqsUpTo(LexAlphabet, MaxTextLen)
        \cup SeqsUpTo(StringAlphabet, MaxTextLen + 2)
        \cup SeqsUpTo(WordAlphabet, MaxTextLen + 2)
        \cup ExampleTexts

\* Spec: texts put together from lexemes.  Any run of lexemes at the top
\* level, ...
TopLexemes ==
    {<<"f">>, <<"X">>, <<".">>, <<"!">>, <<"+">>, <<"@">>, <<":", "-">>,
     <<"<", "-">>, <<"(">>, <<" ">>, <<"n", "o", "t">>, <<EAcute>>}

TopTexts == {Concat(ss) : ss \in SeqsUpTo(TopLexemes, MaxLexemes)}

\* ... the rules `f:-` term `.` over arithmetic and over logical lexemes, ...
ArithLexemes == {<<"1">>, <<"+">>, <<"-">>, <<"*">>, <<"*", "*">>}

LogicLexemes == {<<"X">>, <<"=">>, <<"|">>, <<"&">>, <<"n", "o", "t">>}

RuleTexts(lexemes) ==
    {<<"f", ":", "-">> \o Concat(ss) \o <<".">> : ss \in SeqsUpTo(lexemes, MaxExprLen)}

\* ... and the plans `+f<-` body
BodyLexemes ==
    {<<"X">>, <<";">>, <<".">>, <<"i", "f">>, <<"!">>, <<"[">>, <<"(">>, <<")">>, <<" ">>}

BodyTexts ==
    {<<"+", "f", "<", "-">> \o Concat(ss) : ss \in SeqsUpTo(BodyLexemes, MaxLexemes)}

Texts == TopTexts \cup RuleTexts(ArithLexemes) \cup RuleTexts(LogicLexemes) \cup BodyTexts

\* TermSpec: a run of operands and comparison operators in every place of
\* the grammar that holds a term, ...
TermPrefixes ==
    {<<"f", ":", "-">>, <<"f", "(">>, <<"f", "[">>, <<"+", "f", ":">>,
     <<"+", "f", "<", "-">>, <<"!", "f", "(">>, <<"f", ":", "-", "(">>}

TermSuffixes == {<<>>, <<".">>, <<")", ".">>, <<"]", ".">>}

CompareLexemes == {<<"X">>, <<"=">>}

CompareTexts ==
    {pre \o Concat(ss) \o post :
        pre \in TermPrefixes, ss \in SeqsUpTo(CompareLexemes, MaxCompareLen),
        post \in TermSuffixes}

\* ... and the literals `f` arguments annotations `.`
LiteralLexemes == {<<"(">>, <<")">>, <<"[">>, <<"]">>, <<"X">>, <<",">>}

LiteralTexts ==
    {<<"f">> \o Concat(ss) \o <<".">> : ss \in SeqsUpTo(LiteralLexemes, MaxLiteralLen)}

\* ... and the plans of one or two annotations, then any run of the lexemes
\* of a plan
PlanPrefixes == {<<"@", "f", " ">>, <<"@", "f", "@", "f", " ">>}

PlanLexemes == {<<"+">>, <<"!">>, <<"f">>, <<":">>, <<"<", "-">>, <<"X">>, <<".">>}

PlanTexts ==
    {pre \o Concat(ss) : pre \in PlanPrefixes, ss \in SeqsUpTo(PlanLexemes, MaxPlanLen)}

TermTexts == CompareTexts \cup LiteralTexts \cup PlanTexts

-----------------------------------------------------------------------------
(* The specifications. *)

InitOn(texts) ==
    /\ text \in texts
    /\ cursor = 0
    /\ offset = 0
    /\ kind = <<>>
    /\ start = <<>>
    /\ lexErrors = <<>>
    /\ token_idx = 0
    /\ parents = <<>>
    /\ children = <<>>
    /\ errors = <<>>
    /\ unexpected_eof = FALSE
    /\ stack = <<>>
    /\ status = "lexing"

Init == InitOn(Texts)

LexInit == InitOn(LexTexts)

LexNext == Tokenize \/ LexedStrNew

Next ==
    \/ Tokenize
    \/ LexedStrNew
    \/ parse
    \/ parse_rule_or_belief
    \/ parse_initial_goal
    \/ parse_plan
    \/ parse_formula
    \/ parse_literal
    \/ parse_term
    \/ parse_conjunction
    \/ parse_negation
    \/ parse_comparison
    \/ parse_additive_expression
    \/ parse_multiplicative_expression
    \/ parse_unary_expression
    \/ parse_exponentiation
    \/ parse_atom
    \/ recover

\* LexedStr::new on every text of LexTexts
LexSpec == LexInit /\ [][LexNext]_vars

\* main: LexedStr::new, then parse, on every text of Texts
Spec == Init /\ [][Next]_vars

TermInit == InitOn(TermTexts)

\* main: LexedStr::new, then parse, on every text of TermTexts
TermSpec == TermInit /\ [][Next]_vars

-----------------------------------------------------------------------------
(* The result, and what is read off it. *)

\* Parsed::green_node, once parse has returned
green_node == children[1]

RECURSIVE Leaves(_)
RECURSIVE LeavesOfSeq(_)
\* the leaves of a tree, left to right
Leaves(e) == IF e.leaf THEN <<e>> ELSE LeavesOfSeq(e.children)

\* the leaves of a sequence of trees, left to right
LeavesOfSeq(es) == IF es = <<>> THEN <<>> ELSE Leaves(Head(es)) \o LeavesOfSeq(Tail(es))

RECURSIVE Nodes(_)
\* the interior nodes of a tree
Nodes(e) ==
    IF e.leaf THEN {}
    ELSE {e} \cup UNION {Nodes(e.children[i]) : i \in 1..Len(e.children)}

\* tokens 0 .. n-1 of the lexed stream, as leaves
LexedLeaves(n) == [i \in 1..n |-> Leaf(kind[i], slice(token_range(i - 1)))]

\* a leaf of kind k with the text chars
L(k, chars) == Leaf(k, Bytes(chars))

\* the tree of the rule `f:-` term `.`, the term given as its elements
RuleTree(term) ==
    Node("Root",
         <<Node("Rule",
                <<Node("Literal", <<L("Functor", <<"f">>)>>), L("Define", <<":", "-">>)>>
                    \o term \o <<L("Dot", <<".">>)>>)>>)

One == L("Integer", <<"1">>)

\* the rank of a level of the precedence ladder, the loosest first
ExprRank ==
    [Disjunction |-> 1, Conjunction |-> 2, Negation |-> 3, Comparison |-> 4,
     AdditiveExpression |-> 5, MultiplicativeExpression |-> 6,
     UnaryExpression |-> 7, Exponentiation |-> 8]

\* the operators of the left-associative levels
LeftOps ==
    [Disjunction |-> {"Or"}, Conjunction |-> {"And"},
     AdditiveExpression |-> additive_operator,
     MultiplicativeExpression |-> multiplicative_operator]

\* child j of node n is the term of a parenthesized atom: the nearest sibling
\* before it that is no noise is a `(`
Parenthesized(n, j) ==
    \E i \in 1..(j - 1) :
        /\ n.children[i].leaf /\ n.children[i].kind = "OpenParen"
        /\ \A m \in (i + 1)..(j - 1) :
               n.children[m].leaf /\ n.children[m].kind \in NoiseKinds

ExprChild(n, j) ==
    /\ ~n.children[j].leaf
    /\ n.children[j].kind \in DOMAIN ExprRank
    /\ ~Parenthesized(n, j)

\* the first token at or after index i that is no noise
RECURSIVE NextToken(_)
NextToken(i) == IF peek_kind(i) \in NoiseKinds THEN NextToken(i + 1) ELSE i

RECURSIVE Spans(_, _)
RECURSIVE SpansOfSeq(_, _)
\* the interior nodes of a tree whose first leaf is token from, each with the
\* tokens it spans: from .. to - 1
Spans(e, from) ==
    IF e.leaf THEN {}
    ELSE {[node |-> e, from |-> from, to |-> from + Len(Leaves(e))]}
             \cup SpansOfSeq(e.children, from)

SpansOfSeq(es, from) ==
    IF es = <<>> THEN {}
    ELSE Spans(Head(es), from)
             \cup SpansOfSeq(Tail(es), from + Len(Leaves(Head(es))))

RECURSIVE FirstDot(_)
\* the index of the first `.` at or after token j, or N when there is none
FirstDot(j) ==
    IF j >= len THEN len ELSE IF kind[j + 1] = "Dot" THEN j ELSE FirstDot(j + 1)

\* a leaf of one code point
Var == L("Variable", <<"X">>)
Eq == L("Eq", <<"=">>)

\* main: the position of the "unexpected end of file" diagnostic,
\* lexed.text.len() - 1, which is no usize when it is negative
last == ByteCount(text) - 1

-----------------------------------------------------------------------------
(* The claims. *)

\* C1 (as claimed): for every input text parse terminates and returns a tree
\* with exactly one Root node; the parser never recurses without end.  The
\* process never runs out of stack, and a returned tree is one Root node.
C1_ParseTerminatesWithRoot ==
    /\ status # "stack_overflow"
    /\ status = "done" =>
          Len(children) = 1 /\ ~green_node.leaf /\ green_node.kind = "Root"

\* C2: once LexedStr::new has returned, the byte ranges of tokens 0..N (the
\* Eof sentinel is index N, with an empty range) start at 0, follow one
\* another without gap or overlap, end at the length of the source, and the
\* source sliced at them, in order, is the source.
C2_TokenRangesReproduceSource ==
    status = "lexed" =>
        /\ Len(start) = Len(kind) + 1
        /\ kind[Len(kind)] = "Eof"
        /\ start[1] = 0
        /\ \A i \in 0..len : token_range(i)[1] <= token_range(i)[2]
        /\ token_range(len) = <<ByteCount(text), ByteCount(text)>>
        /\ Concat([i \in 1..(len + 1) |-> slice(token_range(i - 1))]) = Bytes(text)

\* C2 witness: a lexed text of three tokens or more, one of them a code
\* point of two bytes.
C2_Witness ==
    /\ status = "lexed"
    /\ len >= 3
    /\ \E i \in 1..Len(text) : text[i] = EAcute
    /\ \E i \in 0..(len - 1) : token_range(i)[2] - token_range(i)[1] = 2

\* C3: while parse runs and when it has returned, the leaves of the tree
\* being built, left to right, are the tokens the cursor has passed, each
\* with its kind and its source text, noise included and Eof never; when
\* parse returns the cursor has passed all N tokens and the texts of the
\* leaves, concatenated, are the source.
C3_LeavesAreTheTokens ==
    status \in {"parsing", "done"} =>
        /\ LeavesOfSeq(children) = LexedLeaves(token_idx)
        /\ \A i \in 1..token_idx : kind[i] # "Eof"
        /\ status = "done" =>
              /\ token_idx = len
              /\ LET leaves == Leaves(green_node)
                 IN  Concat([i \in 1..Len(leaves) |-> leaves[i].text]) = Bytes(text)

\* C3 witness: parse has returned a tree that holds a whitespace token, an
\* Error node and a token of two bytes.
C3_Witness ==
    /\ status = "done"
    /\ len >= 3
    /\ \E i \in 1..len : kind[i] = "Whitespace"
    /\ \E i \in 1..Len(text) : text[i] = EAcute
    /\ \E n \in Nodes(green_node) : n.kind = "Error" /\ n.children # <<>>

\* C4 (as claimed): parse never panics, whatever token stands at whatever
\* place of the grammar.
C4_ParseNeverPanics == status # "panicked"

\* C5 (as claimed): every invocation of recover consumes at least one token,
\* or the cursor was exhausted when it was invoked.
C5_RecoverConsumesOrExhausted ==
    [][Running("recover") => token_idx' > token_idx \/ ~peek_is_some(token_idx)]_vars

\* C5 (amended): every invocation of recover consumes at least one token,
\* unless the cursor was exhausted when it was invoked or the token it was
\* invoked at satisfies the exclusive stop predicate, which is then left
\* unconsumed.
C5_RecoverConsumesOrStopsAtExclusive ==
    [][Running("recover") =>
          \/ token_idx' > token_idx
          \/ ~peek_is_some(token_idx)
          \/ peek_kind(token_idx) \in Top.until_exclusive]_vars

\* C5 witness: parse has returned a tree with an Error node that holds
\* tokens and an Error node that holds none.
C5_Witness ==
    /\ status = "done"
    /\ \E n \in Nodes(green_node) : n.kind = "Error" /\ n.children # <<>>
    /\ \E n \in Nodes(green_node) : n.kind = "Error" /\ n.children = <<>>

\* C6: the scanner never fails and always moves forward: a call of
\* advance_token consumes at least one code point and at least one byte, an
\* Unknown token is exactly one code point, a code point that starts no
\* token yields an Unknown token, and the tokens end exactly when the input
\* is exhausted, after at most as many tokens as the text has code points.
C6_ScannerProgress ==
    [][status = "lexing" =>
          IF is_eof(text, cursor)
          THEN status' = "lexed" /\ cursor' = cursor
          ELSE /\ status' = "lexing"
               /\ cursor' > cursor
               /\ cursor' <= Len(text)
               /\ offset' > offset
               /\ Len(kind') = Len(kind) + 1
               /\ Len(kind') <= Len(text)
               /\ kind'[Len(kind')] = "Error" => cursor' = cursor + 1
               /\ text[cursor + 1] = EAcute => kind'[Len(kind')] = "Error"
               /\ text[cursor + 1] = "\\"
                      /\ ~is_followed_by(text, cursor + 1, <<"=", "=">>) =>
                      kind'[Len(kind')] = "Error"]_vars

\* C6 witness: a lexed text of several tokens, one of them Unknown, with
\* two Unknown code points in a row.
C6_Witness ==
    /\ status = "lexed"
    /\ len >= 3
    /\ \E i \in 1..(len - 1) : kind[i] = "Error" /\ kind[i + 1] = "Error"

\* C7: in a returned tree a node of a level of the precedence ladder holds,
\* outside parentheses, only nodes of its own or of a tighter level, but for
\* the unary right operand of `**`; `1+1*1` is
\* AdditiveExpression(1 + MultiplicativeExpression(1 * 1)).
C7_TighterLevelNestsDeeper ==
    status = "done" =>
        /\ \A n \in Nodes(green_node) : \A j \in 1..Len(n.children) :
               n.kind \in DOMAIN ExprRank /\ ExprChild(n, j) =>
                   \/ ExprRank[n.children[j].kind] >= ExprRank[n.kind]
                   \/ /\ n.kind = "Exponentiation"
                      /\ n.children[j].kind = "UnaryExpression"
                      /\ j > 1
        /\ text = <<"f", ":", "-", "1", "+", "1", "*", "1", ".">> =>
               green_node =
                   RuleTree(<<Node("AdditiveExpression",
                                   <<One, L("Plus", <<"+">>),
                                     Node("MultiplicativeExpression",
                                          <<One, L("Star", <<"*">>), One>>)>>)>>)

\* C7 witness: parse has returned the tree of `f:-1+1*1.`
C7_Witness ==
    /\ status = "done"
    /\ text = <<"f", ":", "-", "1", "+", "1", "*", "1", ".">>
    /\ \E n \in Nodes(green_node) : n.kind = "MultiplicativeExpression"

\* C8: in a returned tree a node of a left-associative level (disjunction,
\* conjunction, additive, multiplicative) holds exactly one operator of its
\* level and, outside parentheses, holds a node of its own level only as its
\* first child; `1-1-1` is AdditiveExpression(AdditiveExpression(1 - 1) - 1).
C8_LeftAssociative ==
    status = "done" =>
        /\ \A n \in Nodes(green_node) :
               n.kind \in DOMAIN LeftOps =>
                   /\ Cardinality({j \in 1..Len(n.children) :
                                      /\ n.children[j].leaf
                                      /\ n.children[j].kind \in LeftOps[n.kind]}) = 1
                   /\ \A j \in 2..Len(n.children) :
                          ExprChild(n, j) => n.children[j].kind # n.kind
        /\ text = <<"f", ":", "-", "1", "-", "1", "-", "1", ".">> =>
               green_node =
                   RuleTree(<<Node("AdditiveExpression",
                                   <<Node("AdditiveExpression",
                                          <<One, L("Minus", <<"-">>), One>>),
                                     L("Minus", <<"-">>), One>>)>>)

\* C8 witness: parse has returned the tree of `f:-1-1-1.`
C8_Witness ==
    /\ status = "done"
    /\ text = <<"f", ":", "-", "1", "-", "1", "-", "1", ".">>
    /\ Cardinality({n \in Nodes(green_node) : n.kind = "AdditiveExpression"}) = 2

\* C9: in a returned tree an Exponentiation node holds exactly one `**` and
\* never an Exponentiation node as its first child; `1**1**1` is
\* Exponentiation(1 ** Exponentiation(1 ** 1)) and `1**-1` is
\* Exponentiation(1 ** UnaryExpression(- 1)), both without an error.
C9_ExponentiationRightAssociative ==
    status = "done" =>
        /\ \A n \in Nodes(green_node) :
               n.kind = "Exponentiation" =>
                   /\ Cardinality({j \in 1..Len(n.children) :
                                      /\ n.children[j].leaf
                                      /\ n.children[j].kind = "Pow"}) = 1
                   /\ n.children[1].leaf \/ n.children[1].kind # "Exponentiation"
        /\ text = <<"f", ":", "-", "1", "*", "*", "1", "*", "*", "1", ".">> =>
               /\ errors = <<>>
               /\ green_node =
                      RuleTree(<<Node("Exponentiation",
                                      <<One, L("Pow", <<"*", "*">>),
                                        Node("Exponentiation",
                                             <<One, L("Pow", <<"*", "*">>), One>>)>>)>>)
        /\ text = <<"f", ":", "-", "1", "*", "*", "-", "1", ".">> =>
               /\ errors = <<>>
               /\ green_node =
                      RuleTree(<<Node("Exponentiation",
                                      <<One, L("Pow", <<"*", "*">>),
                                        Node("UnaryExpression",
                                             <<L("Minus", <<"-">>), One>>)>>)>>)

\* C9 witness: parse has returned the tree of `f:-1**-1.`
C9_Witness ==
    /\ status = "done"
    /\ text = <<"f", ":", "-", "1", "*", "*", "-", "1", ".">>
    /\ \E n \in Nodes(green_node) : n.kind = "UnaryExpression"

\* C10 (as claimed): when a term starts with `not`, the Negation node holds
\* the `not` token and then the nested negation or comparison: a Negation
\* node, open or closed, has the `not` token as its first element.
C10_NegationHoldsNot ==
    /\ \A i \in 1..Len(parents) :
           parents[i].kind = "Negation" =>
               /\ Len(children) > parents[i].first_child
               /\ children[parents[i].first_child + 1].leaf
               /\ children[parents[i].first_child + 1].kind = "Not"
    /\ \A e \in {children[i] : i \in 1..Len(children)} :
           \A n \in Nodes(e) :
               n.kind = "Negation" =>
                   /\ n.children # <<>>
                   /\ n.children[1].leaf
                   /\ n.children[1].kind = "Not"

\* C11: comparison does not chain.  In a returned tree a Comparison node
\* holds exactly one comparison operator and, outside parentheses, no
\* Comparison node; when a comparison operator follows a Comparison node, it
\* is the first token of an Error node and a syntactic error is recorded at
\* its index; `f:-X=X=X.` is Rule(f :- Comparison(X = X) Error(= X .)) with
\* one error, at the second `=`.
C11_ComparisonDoesNotChain ==
    status = "done" =>
        /\ \A n \in Nodes(green_node) :
               n.kind = "Comparison" =>
                   /\ Cardinality({j \in 1..Len(n.children) :
                                      /\ n.children[j].leaf
                                      /\ n.children[j].kind \in comparison_operator}) = 1
                   /\ \A j \in 1..Len(n.children) :
                          ExprChild(n, j) => n.children[j].kind # "Comparison"
        /\ \A s \in Spans(green_node, 0) :
               s.node.kind = "Comparison"
                   /\ peek_kind(NextToken(s.to)) \in comparison_operator =>
                   /\ \E i \in 1..Len(errors) : errors[i].token_idx = NextToken(s.to)
                   /\ \E e \in Spans(green_node, 0) :
                          e.node.kind = "Error" /\ e.from = NextToken(s.to)
        /\ text = <<"f", ":", "-", "X", "=", "X", "=", "X", ".">> =>
               /\ errors = <<[message |-> <<"expected '.' after rule or belief">>,
                              token_idx |-> 5]>>
               /\ green_node =
                      Node("Root",
                           <<Node("Rule",
                                  <<Node("Literal", <<L("Functor", <<"f">>)>>),
                                    L("Define", <<":", "-">>),
                                    Node("Comparison", <<Var, Eq, Var>>),
                                    Node("Error", <<Eq, Var, L("Dot", <<".">>)>>)>>)>>)

\* C11 witness: parse has returned a tree in which a comparison operator
\* follows a Comparison node that is an argument of a literal.
C11_Witness ==
    /\ status = "done"
    /\ \E s \in Spans(green_node, 0) :
           /\ s.node.kind = "LiteralTerms"
           /\ \E j \in 1..Len(s.node.children) :
                  /\ ~s.node.children[j].leaf
                  /\ s.node.children[j].kind = "Comparison"
    /\ \E s \in Spans(green_node, 0) :
           /\ s.node.kind = "Comparison"
           /\ peek_kind(NextToken(s.to)) \in comparison_operator

\* C12: when the dispatch of parse meets a token that starts no statement,
\* it records nothing itself and calls recover, which records exactly one
\* error, at that token, and appends to the Root one Error node that holds
\* the tokens from it up to and including the first `.` after it, or up to
\* the end of the input, and nothing after; parse then dispatches on the
\* first token after it that is no noise.
C12_TopLevelRecovery ==
    [][/\ Running("recover") /\ Len(stack) = 2 /\ stack[1].fn = "parse" =>
           LET j == token_idx
               end == IF FirstDot(j) < len THEN FirstDot(j) + 1 ELSE len
           IN  /\ peek_is_some(j)
               /\ peek_kind(j) \notin
                      NoiseKinds \cup {"Functor", "Bang", "At", "Plus", "Minus"}
               /\ errors' = Append(errors,
                                   [message |-> <<"unexpected token ", peek_kind(j)>>,
                                    token_idx |-> j])
               /\ token_idx' = end
               /\ children' =
                      Append(children,
                             Node("Error",
                                  [i \in 1..(end - j) |->
                                      Leaf(kind[j + i], slice(token_range(j + i - 1)))]))
               /\ parents' = parents
               /\ stack' = <<stack[1]>>
               /\ stack[1].pc = "loop"
       /\ Running("parse") =>
           LET j == NextToken(token_idx)
               k == peek_kind(j)
           IN  /\ token_idx' = j
               /\ errors' = errors
               /\ k # None =>
                      /\ Len(stack') = 2
                      /\ stack'[2].pc = "start"
                      /\ stack'[2].fn =
                             CASE k = "Functor" -> "parse_rule_or_belief"
                               [] k = "Bang" -> "parse_initial_goal"
                               [] k \in {"At", "Plus", "Minus"} -> "parse_plan"
                               [] OTHER -> "recover"]_vars

\* C12 witness: parse has returned a Root whose first element is an Error
\* node that ends with a `.`, with one error, at token 0, and whose next
\* element is a statement.
C12_Witness ==
    /\ status = "done"
    /\ Len(green_node.children) >= 2
    /\ LET e == green_node.children[1]
       IN  /\ ~e.leaf /\ e.kind = "Error"
           /\ Len(e.children) >= 2
           /\ e.children[Len(e.children)].kind = "Dot"
    /\ ~green_node.children[2].leaf
    /\ green_node.children[2].kind \in {"Belief", "Plan", "InitialGoal"}
    /\ \E i \in 1..Len(errors) : errors[i].token_idx = 0

\* C13 (as claimed): `f()[].` parses without a syntactic error as a Literal
\* with an empty LiteralTerms node, `(` `)`, and an empty but present
\* LiteralAnnotations node, `[` `]`.
C13_EmptyListsAccepted ==
    status = "done" /\ text = <<"f", "(", ")", "[", "]", ".">> =>
        /\ errors = <<>>
        /\ green_node =
               Node("Root",
                    <<Node("Belief",
                           <<Node("Literal",
                                  <<L("Functor", <<"f">>),
                                    Node("LiteralTerms",
                                         <<L("OpenParen", <<"(">>),
                                           L("CloseParen", <<")">>)>>),
                                    Node("LiteralAnnotations",
                                         <<L("OpenBracket", <<"[">>),
                                           L("CloseBracket", <<"]">>)>>)>>),
                             L("Dot", <<".">>)>>)>>)

\* C14: a Functor token takes a `.` if and only if a lowercase letter comes
\* right after it.  Every `.` of a Functor token is followed, within the
\* token, by a lowercase letter; the token is a run of identifier code
\* points and such dots that ends where neither goes on: a `.` right after
\* the token is not followed by a lowercase letter.  `foo.bar(1).` lexes as
\* Functor `foo.bar`, `(`, Integer, `)`, Dot and `foo.` as Functor `foo`, Dot.
C14_FunctorTakesDotBeforeLowercase ==
    /\ [][status = "lexing" /\ ~is_eof(text, cursor)
              /\ kind' = Append(kind, "Functor") =>
              /\ \A i \in (cursor + 1)..cursor' :
                     /\ text[i] \in IdentChars \cup {"."}
                     /\ text[i] = "." => i < cursor' /\ text[i + 1] \in Lowercase
              /\ first(text, cursor') \notin IdentChars
              /\ first(text, cursor') = "." => second(text, cursor') \notin Lowercase]_vars
    /\ [](status = "lexed" =>
              /\ text = <<"f", "o", "o", ".", "b", "a", "r", "(", "1", ")", ".">> =>
                     /\ kind = <<"Functor", "OpenParen", "Integer", "CloseParen",
                                 "Dot", "Eof">>
                     /\ start = <<0, 7, 8, 9, 10, 11, 11>>
              /\ text = <<"f", "o", "o", ".">> =>
                     /\ kind = <<"Functor", "Dot", "Eof">>
                     /\ start = <<0, 3, 4, 4>>)

\* C14 witness: `foo.bar(1).` is lexed, its first token taking seven bytes.
C14_Witness ==
    /\ status = "lexed"
    /\ text = <<"f", "o", "o", ".", "b", "a", "r", "(", "1", ")", ".">>
    /\ kind[1] = "Functor"
    /\ token_range(0) = <<0, 7>>

\* the kinds of the keyword tokens
KeywordKinds ==
    {"True", "False", "If", "Else", "While", "For", "Include", "Begin", "End",
     "Not", "Div", "Mod"}

\* C15 (as claimed): a keyword token is emitted only when the keyword is the
\* whole identifier run: no identifier code point comes right after a
\* keyword token, and `trueish`, `format`, `iffy` and `notify` are each
\* lexed as one Functor token.
C15_KeywordIsWholeRun ==
    /\ [][status = "lexing" /\ Len(kind') = Len(kind) + 1
              /\ kind'[Len(kind')] \in KeywordKinds =>
              first(text, cursor') \notin IdentChars]_vars
    /\ [](status = "lexed"
              /\ text \in {<<"t", "r", "u", "e", "i", "s", "h">>,
                            <<"f", "o", "r", "m", "a", "t">>,
                            <<"i", "f", "f", "y">>,
                            <<"n", "o", "t", "i", "f", "y">>} =>
              kind = <<"Functor", "Eof">>)

RECURSIVE BackslashesBefore(_, _)
\* the length of the run of backslashes that ends right before code point i
\* of the text, within a token whose first code point is lo
BackslashesBefore(lo, i) ==
    IF i - 1 > lo /\ text[i - 1] = "\\" THEN 1 + BackslashesBefore(lo, i - 1) ELSE 0

\* code point i of a string token that opens at code point lo is escaped
Escaped(lo, i) == BackslashesBefore(lo, i) % 2 = 1

\* code point i ends the string that opens at code point lo: an unescaped
\* `"` or an unescaped newline
EndsString(lo, i) == i > lo /\ text[i] \in {"\"", "\n"} /\ ~Escaped(lo, i)

\* C16 (as claimed): a backslash in a string token escapes the next code
\* point, `"` and newline included.  The token that opens at a `"` goes up to
\* the first unescaped `"` or unescaped newline, or to the end of the input,
\* and it is terminated (no lexical error) exactly when it ends with an
\* unescaped `"`; an escaped newline does not end it.
C16_BackslashEscapesNext ==
    [][status = "lexing" /\ ~is_eof(text, cursor) /\ text[cursor + 1] = "\"" =>
          LET lo == cursor + 1
              hi == cursor'
          IN  /\ kind' = Append(kind, "String")
              /\ \A i \in (lo + 1)..(hi - 1) : ~EndsString(lo, i)
              /\ hi = Len(text) \/ EndsString(lo, hi)
              /\ lexErrors' = lexErrors <=> EndsString(lo, hi) /\ text[hi] = "\""
              /\ lexErrors' # lexErrors =>
                     lexErrors' = Append(lexErrors,
                                         [kind |-> "UnterminatedString",
                                          token_idx |-> Len(kind)])]_vars

\* the lexical error that is due for the token of kind k that takes code
\* points lo .. hi of the text, as a sequence of zero or one SyntaxErrorKind:
\* a string that does not end with its closing `"`, a block comment that
\* does not end with its `*/`, an Unknown code point
ErrorDue(k, lo, hi) ==
    CASE k = "Error" -> <<"UnexpectedToken">>
      [] k = "String" /\ ~(hi > lo /\ text[hi] = "\"" /\ ~Escaped(lo, hi)) ->
             <<"UnterminatedString">>
      [] k = "BlockComment" /\ ~(hi >= lo + 3 /\ text[hi - 1] = "*" /\ text[hi] = "/") ->
             <<"UnterminatedBlockComment">>
      [] OTHER -> <<>>

\* C17: LexedStr::new records one lexical error for each offending token
\* and none otherwise.  The step that classifies token i appends one error,
\* with index i and the matching kind, when the token is an unterminated
\* string, an unterminated block comment or an Unknown code point, and leaves
\* the errors alone otherwise; it goes on scanning right after the token.
\* The errors are in the order of their tokens, at most one for a token.
C17_OneLexicalErrorPerOffendingToken ==
    /\ [][status = "lexing" /\ ~is_eof(text, cursor) =>
              LET due == ErrorDue(kind'[Len(kind')], cursor + 1, cursor')
              IN  /\ Len(kind') = Len(kind) + 1
                  /\ status' = "lexing"
                  /\ cursor' > cursor
                  /\ lexErrors' =
                         lexErrors \o [i \in 1..Len(due) |->
                                          [kind |-> due[i], token_idx |-> Len(kind)]]]_vars
    /\ [](/\ \A i \in 1..Len(lexErrors) :
                  /\ lexErrors[i].token_idx < Len(kind)
                  /\ kind[lexErrors[i].token_idx + 1] =
                         (CASE lexErrors[i].kind = "UnexpectedToken" -> "Error"
                            [] lexErrors[i].kind = "UnterminatedString" -> "String"
                            [] lexErrors[i].kind = "UnterminatedBlockComment" ->
                                   "BlockComment")
          /\ \A i \in 1..(Len(lexErrors) - 1) :
                 lexErrors[i].token_idx < lexErrors[i + 1].token_idx)

\* C17 witness: a lexed text with an Unknown code point, then a token
\* without error, then an unterminated string or block comment.
C17_Witness ==
    /\ status = "lexed"
    /\ Len(lexErrors) = 2
    /\ lexErrors[1].kind = "UnexpectedToken"
    /\ lexErrors[2].kind \in {"UnterminatedString", "UnterminatedBlockComment"}
    /\ lexErrors[2].token_idx > lexErrors[1].token_idx + 1

\* C18 (as claimed): the end of the input is reported through
\* unexpected_eof only: no ParserError is pushed while the cursor is
\* exhausted, so every syntactic error carries the index of a token,
\* below N.
C18_NoErrorAtExhaustedCursor ==
    \A i \in 1..Len(errors) : errors[i].token_idx < len

\* C19 (as claimed): while an initial goal is parsed, by parse_initial_goal
\* and what it calls, no syntactic error is appended when the input has
\* ended, and when parse_initial_goal returns, either the last token it
\* consumed is the closing `.`, reached directly or by recovery, or the
\* input ended before that `.` and unexpected_eof is set.
C19_InitialGoalEndOfInput ==
    [][status = "parsing" /\ Len(stack) >= 2
          /\ stack[2].fn = "parse_initial_goal" =>
          /\ ~peek_is_some(NextToken(token_idx)) => errors' = errors
          /\ status' = "parsing" /\ Len(stack') = 1 =>
                 \/ kind[token_idx'] = "Dot"
                 \/ token_idx' = len /\ unexpected_eof']_vars

\* C20 (as claimed): errors are accumulated, parse never aborts on them, and
\* a malformed input yields a complete tree and a non-empty error list.
\* Once an error is recorded or unexpected_eof is set the process neither
\* panics nor runs out of stack; and when parse has returned with an Error
\* node in the tree, a lexical error or unexpected_eof, the tree is one
\* complete Root and the lexical and syntactic errors are not both empty.
C20_MalformedYieldsTreeAndErrors ==
    LET malformed ==
            \/ \E n \in Nodes(green_node) : n.kind = "Error"
            \/ lexErrors # <<>>
            \/ unexpected_eof
    IN  /\ errors # <<>> \/ lexErrors # <<>> \/ unexpected_eof =>
               status \notin {"panicked", "stack_overflow"}
        /\ status = "done" /\ malformed =>
               /\ Len(children) = 1 /\ parents = <<>>
               /\ ~green_node.leaf /\ green_node.kind = "Root"
               /\ Leaves(green_node) = LexedLeaves(len)
               /\ errors # <<>> \/ lexErrors # <<>>

\* the kinds of statement node that a first token opens at the top level
StatementKinds(k) ==
    CASE k = "Functor" -> {"Belief", "Rule"}
      [] k = "Bang" -> {"InitialGoal"}
      [] k \in {"At", "Plus", "Minus"} -> {"Plan"}
      [] OTHER -> {"Error"}

\* C21: whenever the loop of parse is about to run again, and when parse has
\* returned, every node that the Root holds so far is a Belief, a Rule, an
\* InitialGoal, a Plan or an Error node, it holds at least one token, its
\* first token is no noise, and its kind is the one that this first token
\* decides: Functor a Belief or a Rule, `!` an InitialGoal, `@` `+` `-` a
\* Plan, any other token an Error node.
C21_DispatchOnFirstToken ==
    LET top == IF status = "done" THEN green_node.children
               ELSE SubSeq(children, parents[1].first_child + 1, Len(children))
    IN  status = "done" \/ (Running("parse") /\ Top.pc = "loop") =>
            \A i \in 1..Len(top) :
                ~top[i].leaf =>
                    /\ top[i].kind \in {"Belief", "Rule", "InitialGoal", "Plan", "Error"}
                    /\ Leaves(top[i]) # <<>>
                    /\ Leaves(top[i])[1].kind \notin NoiseKinds
                    /\ top[i].kind \in StatementKinds(Leaves(top[i])[1].kind)

\* C21 witness: parse has returned a Root that holds a Belief or a Rule and,
\* after it, an InitialGoal or a Plan.
C21_Witness ==
    /\ status = "done"
    /\ \E i, j \in 1..Len(green_node.children) :
           /\ i < j
           /\ ~green_node.children[i].leaf
           /\ green_node.children[i].kind \in {"Belief", "Rule"}
           /\ ~green_node.children[j].leaf
           /\ green_node.children[j].kind \in {"InitialGoal", "Plan"}

MissingTrigger == <<"expected '+' or '-' for plan trigger">>

\* C22: when parse_plan, at its start or after an annotation, looks at a
\* token j that is no `@`: if j is no `+` and no `-` it records exactly one
\* error, "expected '+' or '-' for plan trigger", at j, and consumes no token
\* for it (a `+` or `-` is consumed without an error); either way the plan
\* goes on with the optional `!` and calls parse_literal, to resume with the
\* context and the body.
C22_MissingTriggerIsOneError ==
    [][Running("parse_plan") /\ Top.pc \in {"start", "annotation"} =>
           LET j == NextToken(token_idx)
               k == peek_kind(j)
               after == IF k \in {"Plus", "Minus"} THEN NextToken(j + 1) ELSE j
           IN  k # "At" =>
                   /\ errors' =
                          IF k \in {"Plus", "Minus"} THEN errors
                          ELSE Append(errors, [message |-> MissingTrigger, token_idx |-> j])
                   /\ token_idx' = IF peek_kind(after) = "Bang" THEN after + 1 ELSE after
                   /\ unexpected_eof' = unexpected_eof
                   /\ status' = "parsing"
                   /\ Len(stack') = Len(stack) + 1
                   /\ stack'[Len(stack)] = [Top EXCEPT !.pc = "literal"]
                   /\ stack'[Len(stack')] = Frame("parse_literal")]_vars

\* C22 witness: parse has returned a Plan that holds an annotation, no
\* trigger, the triggering Literal and a context or a body, with the error of
\* the missing trigger.
C22_Witness ==
    /\ status = "done"
    /\ \E i \in 1..Len(errors) : errors[i].message = MissingTrigger
    /\ \E n \in Nodes(green_node) :
           /\ n.kind = "Plan"
           /\ \A i \in 1..Len(n.children) : n.children[i].kind \notin {"Plus", "Minus"}
           /\ \E a, l, c \in 1..Len(n.children) :
                  /\ a < l /\ l < c
                  /\ n.children[a].kind = "PlanAnnotation"
                  /\ n.children[l].kind = "Literal"
                  /\ n.children[c].kind \in {"PlanContext", "Body"}

RECURSIVE FirstSemiOrDot(_)
\* the index of the first `;` or `.` at or after token j, or N when there is
\* none
FirstSemiOrDot(j) ==
    IF j >= len THEN len
    ELSE IF kind[j + 1] \in {"Semi", "Dot"} THEN j ELSE FirstSemiOrDot(j + 1)

\* C23 (as claimed): the recover that the body of a plan calls at a token
\* after a formula that is neither `;` nor `.` appends one Error node that
\* holds the tokens from that token up to and including the first `;` or `.`
\* after it (or up to the end of the input), so that the cursor is left
\* behind that `;` or `.`.
C23_BodyRecoveryTakesStop ==
    [][/\ Running("recover")
       /\ Len(stack) >= 2
       /\ stack[Len(stack) - 1].fn = "parse_plan"
       /\ stack[Len(stack) - 1].pc = "formula"
       => LET j == token_idx
              stop == FirstSemiOrDot(j)
              end == IF stop < len THEN stop + 1 ELSE len
          IN  /\ token_idx' = end
              /\ children' =
                     Append(children,
                            Node("Error",
                                 [i \in 1..(end - j) |->
                                     Leaf(kind[j + i], slice(token_range(j + i - 1)))]))]_vars

\* C24: once LexedStr::new has returned, start holds N + 2 offsets, so that
\* token_range(i) is in bounds for every i in 0..N; start[0] = 0, the offsets
\* never decrease and none exceeds the length of the source in bytes; the
\* range of index N is the empty range at the length of the source; and
\* index N holds the only Eof of kind.
C24_StartOffsetsInBounds ==
    status # "lexing" =>
        /\ Len(start) = len + 2
        /\ start[1] = 0
        /\ \A i \in 0..len :
               /\ i + 2 \in DOMAIN start
               /\ 0 <= start[i + 1]
               /\ start[i + 1] <= start[i + 2]
               /\ start[i + 2] <= ByteCount(text)
        /\ token_range(len)[1] = ByteCount(text)
        /\ token_range(len)[2] = ByteCount(text)
        /\ \A i \in 1..Len(kind) : kind[i] = "Eof" <=> i = len + 1

\* C24 witness: a lexed text that ends with a code point of two bytes, of two
\* tokens or more, the last of them of two bytes or more.
C24_Witness ==
    /\ status = "lexed"
    /\ len >= 2
    /\ text[Len(text)] = EAcute
    /\ start[len + 1] - start[len] >= 2
    /\ start[len + 2] > Len(text)

RECURSIVE RunEnd(_, _)
\* the cursor behind the run of code points of S that starts at cursor i
RunEnd(S, i) ==
    IF i < Len(text) /\ text[i + 1] \in S THEN RunEnd(S, i + 1) ELSE i

\* C25: a token that starts with `_` takes the whole run of underscores; if
\* an uppercase letter follows the run, the token is a Variable that goes on
\* to the end of the run of identifier code points, and if not, it is a
\* Wildcard that ends with the underscores.
C25_UnderscoreRun ==
    [][status = "lexing" /\ cursor < Len(text) /\ text[cursor + 1] = "_" =>
           LET u == RunEnd({"_"}, cursor)
               uppercase_follows == u < Len(text) /\ text[u + 1] \in Uppercase
           IN  /\ kind' =
                      Append(kind, IF uppercase_follows THEN "Variable" ELSE "Wildcard")
               /\ cursor' = IF uppercase_follows THEN RunEnd(IdentChars, u) ELSE u
               /\ offset' = offset + (cursor' - cursor)
               /\ lexErrors' = lexErrors]_vars

\* C25 witness: a lexed text with a Wildcard of `_` in front of a lowercase
\* letter or a `.`, and a Variable of two code points or more that starts with `_`.
C25_Witness ==
    /\ status = "lexed"
    /\ \E i \in 0..(len - 1) :
           /\ kind[i + 1] = "Wildcard"
           /\ slice(token_range(i)) = Bytes(<<"_">>)
           /\ peek_kind(i + 1) \in {"Functor", "Dot"}
    /\ \E i \in 0..(len - 1) :
           /\ kind[i + 1] = "Variable"
           /\ Len(slice(token_range(i))) >= 2
           /\ slice(token_range(i))[1] = Bytes(<<"_">>)[1]

\* C26 (as claimed): every Functor token begins with a lowercase letter, and
\* a token that starts with `.` is the Dot of that one code point.
C26_FunctorStartsLowercase ==
    /\ [][status = "lexing" /\ cursor < Len(text) /\ text[cursor + 1] = "." =>
              kind' = Append(kind, "Dot") /\ cursor' = cursor + 1]_vars
    /\ [](status = "lexed" =>
              \A i \in 0..(len - 1) :
                  kind[i + 1] = "Functor" =>
                      \E ch \in Lowercase : slice(token_range(i))[1] = Bytes(<<ch>>)[1])

\* C27: parse_initial_goal is only entered with `!` as the next token that is
\* no noise, and no step of the parser fails but at a todo!() (parse_formula
\* at `while`, `if` or `for`, parse_atom at `[`): the unwrap of bump and the
\* assert of parse_initial_goal never fail.
C27_CursorNeverMisused ==
    [][LET k == peek_kind(NextToken(token_idx))
       IN  /\ Running("parse_initial_goal") /\ Top.pc = "start" => k = "Bang"
           /\ status = "parsing" /\ status' = "panicked" =>
                  \/ Running("parse_formula") /\ Top.pc = "start"
                        /\ k \in {"While", "If", "For"}
                  \/ Running("parse_atom") /\ Top.pc = "start"
                        /\ k = "OpenBracket"]_vars

\* C27 witness: parse has returned after parse_initial_goal ran and after
\* bump took the last token of three or more.
C27_Witness ==
    /\ status = "done"
    /\ len >= 3
    /\ token_idx = len
    /\ \E n \in Nodes(green_node) : n.kind = "InitialGoal"
    /\ Len(Leaves(green_node)) = len

\* the nodes that the call of frame f has opened and not yet closed, by the
\* place where it resumes
OpenNodes(f) ==
    CASE f.pc = "start" -> 0
      [] f.fn = "parse" -> 1
      [] f.pc \in {"operator", "close"} -> 0
      [] f.pc = "literal" -> IF f.fn = "parse_rule_or_belief" THEN 0 ELSE 1
      [] f.pc \in {"term", "finish"} -> 1
      [] OTHER -> 2

RECURSIVE OpenDepth(_)
\* the nodes that the calls of a stack have opened and not yet closed
OpenDepth(stk) == IF stk = <<>> THEN 0 ELSE OpenNodes(Head(stk)) + OpenDepth(Tail(stk))

\* the functions that open a node at a checkpoint
CheckpointFns ==
    {"parse_rule_or_belief", "parse_term", "parse_conjunction", "parse_comparison",
     "parse_additive_expression", "parse_multiplicative_expression",
     "parse_exponentiation"}

\* C28: while parse runs, the open nodes are the Root and, on top of it, just
\* the nodes that the calls on the stack have opened and not yet closed (so
\* every call that returns has closed every node it opened), each open node
\* starts at or after the one below it; the checkpoint a function is about to
\* use, or has used for its open node, lies inside the innermost node open
\* around it, with every node opened since then closed; before parse and
\* after its return no node is open, and the result is one tree.
C28_BuilderBalanced ==
    /\ status \in {"lexing", "lexed"} => parents = <<>> /\ children = <<>>
    /\ status = "done" => parents = <<>> /\ Len(children) = 1
    /\ status = "parsing" =>
           /\ Len(parents) >= 1
           /\ parents[1] = [kind |-> "Root", first_child |-> 0]
           /\ Len(parents) = OpenDepth(stack)
           /\ \A i \in 1..Len(parents) :
                  /\ parents[i].first_child <= Len(children)
                  /\ i > 1 => parents[i - 1].first_child <= parents[i].first_child
           /\ Top.fn \in CheckpointFns /\ Top.pc # "start" =>
                  LET around == parents[Len(parents) - OpenNodes(Top)]
                  IN  /\ around.first_child <= Top.cp
                      /\ Top.cp <= Len(children)
                      /\ OpenNodes(Top) = 1 => parents[Len(parents)].first_child = Top.cp

\* C28 witness: parse_comparison is about to close the Comparison that it
\* opened at its checkpoint, five open nodes or more around it, with elements
\* of the open node in front of the checkpoint.
C28_Witness ==
    /\ Running("parse_comparison")
    /\ Top.pc = "finish"
    /\ Len(parents) >= 5
    /\ parents[Len(parents)].kind = "Comparison"
    /\ parents[Len(parents)].first_child = Top.cp
    /\ parents[Len(parents) - 1].first_child < Top.cp

\* C29: every syntactic error holds a token index in 0..N, whose token_range
\* is a byte range of the source, and the token there is no noise (or the
\* index is N); a step of the parser leaves the errors as they are or
\* appends one, at the first token at or after the cursor that is no noise (N
\* when there is none), and never resets unexpected_eof.
C29_ErrorIndexValid ==
    /\ [](\A i \in 1..Len(errors) :
              LET idx == errors[i].token_idx
              IN  /\ idx \in 0..len
                  /\ idx + 2 \in DOMAIN start
                  /\ token_range(idx)[1] <= token_range(idx)[2]
                  /\ token_range(idx)[2] <= ByteCount(text)
                  /\ peek_kind(idx) \notin NoiseKinds)
    /\ [][/\ unexpected_eof => unexpected_eof'
          /\ \/ errors' = errors
             \/ /\ Len(errors') = Len(errors) + 1
                /\ SubSeq(errors', 1, Len(errors)) = errors
                /\ errors'[Len(errors')].token_idx = NextToken(token_idx)]_vars

\* C29 witness: parse has returned with an error at a token that follows
\* noise and an error at N.
C29_Witness ==
    /\ status = "done"
    /\ \E i \in 1..Len(errors) : errors[i].token_idx = len
    /\ \E i \in 1..Len(errors) :
           /\ errors[i].token_idx < len
           /\ errors[i].token_idx >= 1
           /\ kind[errors[i].token_idx] \in NoiseKinds

\* C30: unexpected_eof is only ever set for a text that holds a token that is
\* no noise, so that the position of the driver's diagnostic, the length of
\* the source less one, is not negative; for an empty text and for a text of
\* noise alone parse returns with unexpected_eof false and no error.
C30_EofOnlyAfterToken ==
    /\ unexpected_eof =>
           /\ \E i \in 0..(len - 1) : kind[i + 1] \notin NoiseKinds
           /\ last >= 0
    /\ status = "done" /\ (\A i \in 0..(len - 1) : kind[i + 1] \in NoiseKinds) =>
           ~unexpected_eof /\ errors = <<>>

\* C30 witness: parse has returned with unexpected_eof set for a text whose
\* one token that is no noise has noise in front of it.
C30_Witness ==
    /\ status = "done"
    /\ unexpected_eof
    /\ len >= 2
    /\ kind[1] \in NoiseKinds
    /\ Cardinality({i \in 0..(len - 1) : kind[i + 1] \notin NoiseKinds}) = 1

\* the elements of a node that are no noise
Elements(n) ==
    SelectSeq(n.children, LAMBDA e : ~(e.leaf /\ e.kind \in NoiseKinds))

\* C31: parse_plan, after the triggering literal or after the context, at a
\* token that opens neither a context nor a body, returns without an error
\* and with no token consumed but noise; and when parse has returned, every
\* Plan without a Body that a `.` follows ends with its Literal or its
\* PlanContext, and the Root holds, right after it, an Error node of just
\* that `.`, with exactly one error "unexpected token Dot", at that `.`.
C31_PlanWithoutBodyLeavesDot ==
    /\ [][Running("parse_plan") /\ Top.pc \in {"literal", "context"} =>
              LET j == NextToken(token_idx)
                  k == peek_kind(j)
              IN  k # "Arrow" /\ (Top.pc = "literal" => k # "Colon") =>
                      /\ token_idx' = j
                      /\ errors' = errors
                      /\ unexpected_eof' = unexpected_eof
                      /\ stack' = Ret
                      /\ parents' = SubSeq(parents, 1, Len(parents) - OpenNodes(Top))
                      /\ children'[Len(children')].kind = "Plan"]_vars
    /\ [](status = "done" =>
              \A s \in Spans(green_node, 0) :
                  /\ s.node.kind = "Plan"
                  /\ \A i \in 1..Len(s.node.children) : s.node.children[i].kind # "Body"
                  /\ peek_kind(s.to) = "Dot"
                  => /\ LET es == Elements(s.node)
                        IN  /\ es # <<>>
                            /\ ~es[Len(es)].leaf
                            /\ es[Len(es)].kind \in {"Literal", "PlanContext"}
                     /\ \E i \in 1..(Len(green_node.children) - 1) :
                            /\ green_node.children[i] = s.node
                            /\ green_node.children[i + 1] =
                                   Node("Error", <<L("Dot", <<".">>)>>)
                     /\ Cardinality({i \in 1..Len(errors) :
                                        errors[i] =
                                            [message |-> <<"unexpected token ", "Dot">>,
                                             token_idx |-> s.to]}) = 1)

\* C31 witness: parse has returned a Root that holds a Plan with a
\* PlanContext and no Body and, right after it, an Error node of one `.`.
C31_Witness ==
    /\ status = "done"
    /\ \E i \in 1..(Len(green_node.children) - 1) :
           LET n == green_node.children[i]
           IN  /\ ~n.leaf /\ n.kind = "Plan"
               /\ \E c \in 1..Len(n.children) : n.children[c].kind = "PlanContext"
               /\ \A c \in 1..Len(n.children) : n.children[c].kind # "Body"
               /\ green_node.children[i + 1] = Node("Error", <<L("Dot", <<".">>)>>)

====
